---- MODULE Spec2Model ----
(***************************************************************************)
(* NativeInputEventReceiver (core/jni/android_view_InputEventReceiver.cpp) *)
(* as a state machine.  One receiver, driven from one thread: the JNI      *)
(* entry points, the Looper callback handleEvent, and the loop of         *)
(* consumeEvents, one iteration per step while pc = "consume".            *)
(*                                                                         *)
(* The InputConsumer (transport), the Looper and the Java receiver are     *)
(* the environment: what they return is chosen with \E in the actions.    *)
(* Not modelled: frameTime and *outConsumedBatch (no state of the         *)
(* receiver depends on them), and calls made by the handler from inside   *)
(* a callback other than finishInputEvent for the event being dispatched. *)
(***************************************************************************)
EXTENDS Integers, Sequences, FiniteSets, TLC

\* ------------------------------------------------------------------ bounds
MaxSeq    == 5   \* sequence numbers the publisher hands out are 1..MaxSeq
MaxEvents == 2   \* events the transport decodes successfully in one run
MaxMotionEvents == 1   \* SpecMotion: events the transport decodes successfully
MaxMotionSigs   == 4   \* SpecMotion: transport results that carry a motion sub-signature

\* -------------------------------------------------------- program constants
ALOOPER_EVENT_INPUT  == "INPUT"
ALOOPER_EVENT_OUTPUT == "OUTPUT"
ALOOPER_EVENT_ERROR  == "ERROR"
ALOOPER_EVENT_HANGUP == "HANGUP"

OK          == "OK"
WOULD_BLOCK == "WOULD_BLOCK"
DEAD_OBJECT == "DEAD_OBJECT"
NO_MEMORY   == "NO_MEMORY"
UNKNOWN_ERROR == "UNKNOWN_ERROR"

AINPUT_EVENT_TYPE_KEY    == "Key"
AINPUT_EVENT_TYPE_MOTION == "Motion"
AINPUT_EVENT_TYPE_FOCUS  == "Focus"

\* what InputConsumer::sendFinishedSignal can return
SendStatus == {OK, WOULD_BLOCK, DEAD_OBJECT, UNKNOWN_ERROR}
\* what InputConsumer::consume can return
ConsumeStatus == {OK, WOULD_BLOCK, DEAD_OBJECT, NO_MEMORY, UNKNOWN_ERROR}
EventTypes == {AINPUT_EVENT_TYPE_KEY, AINPUT_EVENT_TYPE_MOTION, AINPUT_EVENT_TYPE_FOCUS}
\* the motion sub-signature values the transport reports (motionEventType, touchMoveNum)
MotionEventTypes == {1, 2}
TouchMoveNums == {0, 1}

\* the sequence of sub-signatures of the specification's example
MotionScenario == << <<1, 0>>, <<1, 0>>, <<1, 1>>, <<2, 0>> >>

\* struct Finish { seq; handled; }
Finish(seq, handled) == [seq |-> seq, handled |-> handled]

VARIABLES
  initialized,               \* initialize() has run (nativeInit returned the receiver)
  disposed,                  \* history: dispose() has been called
  mFdEvents,                 \* the interest mask the receiver remembers
  looperFd,                  \* the mask the Looper holds for the channel fd ({} = no registration)
  mFinishQueue,              \* Vector<Finish>
  mBatchedInputEventPending,
  mLastMotionEventType,
  mLastTouchMoveNum,
  receiverAlive,             \* the referent of mReceiverWeakGlobal still exists
  pc,                        \* "idle", "consume" inside the loop of consumeEvents, "batchCallback" inside onBatchedInputEventPending
  caller,                    \* who called consumeEvents: "handleEvent" or "jni"
  consumeBatches,            \* argument of the running consumeEvents
  skipCallbacks,             \* local of the running consumeEvents
  receiverObj,               \* local of the running consumeEvents: referent resolved
  lastSeq,                   \* transport: highest sequence number handed out
  nEvents,                   \* transport: events decoded so far
  nSigs,                     \* transport: results with a motion sub-signature so far
  decoded,                   \* history: per sequence number, how consumeEvents treated the event
  onEventCalls,              \* history: per sequence number, dispatchInputEvent calls made
  onFocusCalls,              \* history: per sequence number, onFocusEvent calls made
  autoBlocked,               \* history: events whose skip-state finish returned WOULD_BLOCK
  outstanding,               \* events the handler holds and has not finished yet
  accepted,                  \* history: acknowledgements the transport accepted, in order
  prevSig,                   \* history: the sub-signature consumeEvents was handed last
  sigChanges,                \* history: how often a sub-signature differed from the one before
  scenarioPos,               \* history: how many sub-signatures so far follow MotionScenario (-1: left it)
  motionInfoCalls,           \* history: dispatchMotionEventInfo calls made
  step                       \* history: the step taken last (operation, inputs, outputs)

vars == <<initialized, disposed, mFdEvents, looperFd, mFinishQueue,
          mBatchedInputEventPending, mLastMotionEventType, mLastTouchMoveNum,
          receiverAlive, pc, caller, consumeBatches, skipCallbacks, receiverObj,
          lastSeq, nEvents, nSigs, decoded, onEventCalls, onFocusCalls, autoBlocked,
          outstanding, accepted,
          prevSig, sigChanges, scenarioPos, motionInfoCalls, step>>

\* the receiver's own fields and locals (no history, no environment)
progVars == <<initialized, mFdEvents, looperFd, mFinishQueue,
              mBatchedInputEventPending, mLastMotionEventType, mLastTouchMoveNum,
              pc, caller, consumeBatches, skipCallbacks, receiverObj>>

NoStep == [op |-> "none", prev |-> "none", events |-> {}, seq |-> 0, handled |-> FALSE,
           status |-> "none", kind |-> "none", skip |-> FALSE,
           nEvent |-> 0, nFocus |-> 0, nBatch |-> 0, nMotionInfo |-> 0,
           finishReq |-> FALSE, sendStatus |-> "none", nSent |-> 0,
           queueBefore |-> <<>>, fdBefore |-> {}, pendingBefore |-> FALSE,
           detached |-> FALSE,
           hasPendingBatch |-> FALSE, looperCall |-> "none", fault |-> FALSE,
           ret |-> "none", callbackResult |-> -1]

Step(op) == [NoStep EXCEPT !.op = op,
                           !.prev = IF op = "nativeDispose" THEN step.op ELSE "none",
                           !.queueBefore = mFinishQueue,
                           !.fdBefore = mFdEvents,
                           !.pendingBefore = mBatchedInputEventPending]

Init ==
  /\ initialized = FALSE
  /\ disposed = FALSE
  /\ mFdEvents = {}
  /\ looperFd = {}
  /\ mFinishQueue = <<>>
  /\ mBatchedInputEventPending = FALSE
  /\ mLastMotionEventType = -1
  /\ mLastTouchMoveNum = -1
  /\ receiverAlive = TRUE
  /\ pc = "idle"
  /\ caller = "none"
  /\ consumeBatches = FALSE
  /\ skipCallbacks = FALSE
  /\ receiverObj = FALSE
  /\ lastSeq \in {0, MaxSeq - 1}   \* where the publisher's counter stands
  /\ nEvents = 0
  /\ nSigs = 0
  /\ decoded = [s \in 1..MaxSeq |-> "none"]
  /\ onEventCalls = [s \in 1..MaxSeq |-> 0]
  /\ onFocusCalls = [s \in 1..MaxSeq |-> 0]
  /\ autoBlocked = {}
  /\ outstanding = {}
  /\ accepted = <<>>
  /\ prevSig = <<-1, -1>>
  /\ sigChanges = 0
  /\ scenarioPos = 0
  /\ motionInfoCalls = 0
  /\ step = NoStep

\* setFdEvents without the test mFdEvents != events
setFdEvents_Unconditional(fd, lp, events) ==
  [fd |-> events, looper |-> events,
   call |-> IF events # {} THEN "addFd" ELSE "removeFd"]

\* ------------------------------------------------------------- setFdEvents
\* The receiver's mask, the Looper's mask and the Looper call made, after
\* setFdEvents(events) from the masks fd (mFdEvents) and lp (the Looper's).
setFdEvents(fd, lp, events) ==
  IF fd # events
    THEN [fd |-> events, looper |-> events,
          call |-> IF events # {} THEN "addFd" ELSE "removeFd"]
    ELSE [fd |-> fd, looper |-> lp, call |-> "none"]

\* finishInputEvent that queues the record without asking for write-readiness
finishInputEvent_NoRegister(q, fd, lp, seq, handled, status) ==
  IF status = OK
    THEN [queue |-> q, fd |-> fd, looper |-> lp, call |-> "none",
          sent |-> <<Finish(seq, handled)>>, ret |-> OK]
  ELSE IF status = WOULD_BLOCK
    THEN [queue |-> Append(q, Finish(seq, handled)), fd |-> fd, looper |-> lp,
          call |-> "none", sent |-> <<>>, ret |-> OK]
  ELSE [queue |-> q, fd |-> fd, looper |-> lp, call |-> "none",
        sent |-> <<>>, ret |-> status]

\* finishInputEvent that queues the record on every failed send
finishInputEvent_EnqueuesOnError(q, fd, lp, seq, handled, status) ==
  IF status = OK
    THEN [queue |-> q, fd |-> fd, looper |-> lp, call |-> "none",
          sent |-> <<Finish(seq, handled)>>, ret |-> OK]
    ELSE LET q2 == Append(q, Finish(seq, handled))
             r  == IF Len(q2) = 1
                     THEN setFdEvents(fd, lp, {ALOOPER_EVENT_INPUT, ALOOPER_EVENT_OUTPUT})
                     ELSE [fd |-> fd, looper |-> lp, call |-> "none"]
         IN [queue |-> q2, fd |-> r.fd, looper |-> r.looper, call |-> r.call,
             sent |-> <<>>, ret |-> OK]

\* --------------------------------------------------------- finishInputEvent
\* finishInputEvent(seq, handled) on queue q and masks fd/lp, when
\* sendFinishedSignal returns status.
finishInputEvent(q, fd, lp, seq, handled, status) ==
  IF status = OK
    THEN [queue |-> q, fd |-> fd, looper |-> lp, call |-> "none",
          sent |-> <<Finish(seq, handled)>>, ret |-> OK]
  ELSE IF status = WOULD_BLOCK
    THEN LET q2 == Append(q, Finish(seq, handled))
             r  == IF Len(q2) = 1
                     THEN setFdEvents(fd, lp, {ALOOPER_EVENT_INPUT, ALOOPER_EVENT_OUTPUT})
                     ELSE [fd |-> fd, looper |-> lp, call |-> "none"]
         IN [queue |-> q2, fd |-> r.fd, looper |-> r.looper, call |-> r.call,
             sent |-> <<>>, ret |-> OK]
  ELSE [queue |-> q, fd |-> fd, looper |-> lp, call |-> "none",
        sent |-> <<>>, ret |-> status]

\* the flush loop that also removes the record whose send failed
flushFinishQueue_DropsBlocked(q, fd, lp, k, status) ==
  IF k = Len(q)
    THEN LET r == setFdEvents(fd, lp, {ALOOPER_EVENT_INPUT})
         IN [queue |-> <<>>, fd |-> r.fd, looper |-> r.looper, call |-> r.call,
             sent |-> q, fault |-> FALSE, ret |-> 1]
    ELSE [queue |-> SubSeq(q, k + 2, Len(q)), fd |-> fd, looper |-> lp, call |-> "none",
          sent |-> SubSeq(q, 1, k),
          fault |-> (status # WOULD_BLOCK /\ status # DEAD_OBJECT),
          ret |-> IF status = WOULD_BLOCK THEN 1 ELSE 0]

\* the flush loop that raises the fault on every hard error, DEAD_OBJECT too
flushFinishQueue_FaultOnDeadObject(q, fd, lp, k, status) ==
  IF k = Len(q)
    THEN LET r == setFdEvents(fd, lp, {ALOOPER_EVENT_INPUT})
         IN [queue |-> <<>>, fd |-> r.fd, looper |-> r.looper, call |-> r.call,
             sent |-> q, fault |-> FALSE, ret |-> 1]
    ELSE [queue |-> SubSeq(q, k + 1, Len(q)), fd |-> fd, looper |-> lp, call |-> "none",
          sent |-> SubSeq(q, 1, k),
          fault |-> (status # WOULD_BLOCK),
          ret |-> IF status = WOULD_BLOCK THEN 1 ELSE 0]

\* the flush loop that leaves the sent records in the queue when it is cut short
flushFinishQueue_KeepsSentPrefix(q, fd, lp, k, status) ==
  IF k = Len(q)
    THEN LET r == setFdEvents(fd, lp, {ALOOPER_EVENT_INPUT})
         IN [queue |-> <<>>, fd |-> r.fd, looper |-> r.looper, call |-> r.call,
             sent |-> q, fault |-> FALSE, ret |-> 1]
    ELSE [queue |-> q, fd |-> fd, looper |-> lp, call |-> "none",
          sent |-> SubSeq(q, 1, k),
          fault |-> (status # WOULD_BLOCK /\ status # DEAD_OBJECT),
          ret |-> IF status = WOULD_BLOCK THEN 1 ELSE 0]

\* the flush loop that leaves the interest as it was after sending everything
flushFinishQueue_KeepsOutput(q, fd, lp, k, status) ==
  IF k = Len(q)
    THEN [queue |-> <<>>, fd |-> fd, looper |-> lp, call |-> "none",
          sent |-> q, fault |-> FALSE, ret |-> 1]
    ELSE [queue |-> SubSeq(q, k + 1, Len(q)), fd |-> fd, looper |-> lp, call |-> "none",
          sent |-> SubSeq(q, 1, k),
          fault |-> (status # WOULD_BLOCK /\ status # DEAD_OBJECT),
          ret |-> IF status = WOULD_BLOCK THEN 1 ELSE 0]

\* ------------------------------------------------- handleEvent, OUTPUT branch
\* The flush loop over q when the first k sends return OK and send k+1
\* (if k < Len(q)) returns status.
flushFinishQueue(q, fd, lp, k, status) ==
  IF k = Len(q)
    THEN LET r == setFdEvents(fd, lp, {ALOOPER_EVENT_INPUT})
         IN [queue |-> <<>>, fd |-> r.fd, looper |-> r.looper, call |-> r.call,
             sent |-> q, fault |-> FALSE, ret |-> 1]
    ELSE [queue |-> SubSeq(q, k + 1, Len(q)), fd |-> fd, looper |-> lp, call |-> "none",
          sent |-> SubSeq(q, 1, k),
          fault |-> (status # WOULD_BLOCK /\ status # DEAD_OBJECT),
          ret |-> IF status = WOULD_BLOCK THEN 1 ELSE 0]

evtUnchanged == UNCHANGED <<decoded, onEventCalls, onFocusCalls, autoBlocked>>
histUnchanged == UNCHANGED <<lastSeq, nEvents, nSigs, decoded, onEventCalls, onFocusCalls,
                             autoBlocked, outstanding, accepted,
                             prevSig, sigChanges, scenarioPos, motionInfoCalls>>
consumeLocalsUnchanged == UNCHANGED <<pc, caller, consumeBatches, skipCallbacks, receiverObj>>
motionUnchanged == UNCHANGED <<mLastMotionEventType, mLastTouchMoveNum>>

\* ---------------------------------------------------------------- nativeInit
nativeInit ==
  /\ ~initialized
  /\ LET r == setFdEvents(mFdEvents, looperFd, {ALOOPER_EVENT_INPUT})
     IN /\ mFdEvents' = r.fd
        /\ looperFd' = r.looper
        /\ step' = [Step("nativeInit") EXCEPT !.looperCall = r.call, !.ret = OK]
  /\ initialized' = TRUE
  /\ UNCHANGED <<disposed, mFinishQueue, mBatchedInputEventPending, receiverAlive>>
  /\ motionUnchanged /\ consumeLocalsUnchanged /\ histUnchanged

\* ------------------------------------------------------------- nativeDispose
nativeDispose ==
  /\ initialized /\ pc = "idle"
  /\ LET r == setFdEvents(mFdEvents, looperFd, {})
     IN /\ mFdEvents' = r.fd
        /\ looperFd' = r.looper
        /\ step' = [Step("nativeDispose") EXCEPT !.looperCall = r.call]
  /\ disposed' = TRUE
  /\ UNCHANGED <<initialized, mFinishQueue, mBatchedInputEventPending, receiverAlive>>
  /\ motionUnchanged /\ consumeLocalsUnchanged /\ histUnchanged

\* ---------------------------------------------------- nativeFinishInputEvent
\* The application finishes an event it was handed by dispatchInputEvent.
nativeFinishInputEvent(sends) ==
  /\ initialized /\ pc = "idle"
  /\ \E seq \in outstanding, handled \in BOOLEAN, status \in sends :
       LET r == finishInputEvent(mFinishQueue, mFdEvents, looperFd, seq, handled, status)
       IN /\ mFinishQueue' = r.queue
          /\ mFdEvents' = r.fd
          /\ looperFd' = r.looper
          /\ accepted' = accepted \o r.sent
          /\ outstanding' = outstanding \ {seq}
          /\ step' = [Step("nativeFinishInputEvent") EXCEPT
                        !.seq = seq, !.handled = handled, !.finishReq = TRUE,
                        !.sendStatus = status, !.nSent = Len(r.sent),
                        !.looperCall = r.call, !.ret = r.ret]
  /\ UNCHANGED <<initialized, disposed, mBatchedInputEventPending, receiverAlive>>
  /\ motionUnchanged /\ consumeLocalsUnchanged
  /\ evtUnchanged
  /\ UNCHANGED <<lastSeq, nEvents, nSigs, prevSig, sigChanges, scenarioPos, motionInfoCalls>>

\* ------------------------------------------------------------- handleEvent
\* the result that keeps the callback on every status but UNKNOWN_ERROR
handleEventResult_KeepsUnlessUnknown(status) == IF status # UNKNOWN_ERROR THEN 1 ELSE 0

\* What handleEvent returns to the Looper after consumeEvents returned status.
handleEventResult(status) == IF status = OK \/ status = NO_MEMORY THEN 1 ELSE 0

\* The masks the Looper can deliver: the registered bits, and error/hangup.
DeliverableEvents ==
  {e \in SUBSET {ALOOPER_EVENT_INPUT, ALOOPER_EVENT_OUTPUT,
                 ALOOPER_EVENT_ERROR, ALOOPER_EVENT_HANGUP} :
     (e \cap {ALOOPER_EVENT_INPUT, ALOOPER_EVENT_OUTPUT}) \subseteq looperFd}

\* the error branch that logs and keeps the callback
handleEventError_KeepsCallback(events) ==
  /\ events \cap {ALOOPER_EVENT_ERROR, ALOOPER_EVENT_HANGUP} # {}
  /\ step' = [Step("handleEvent") EXCEPT !.events = events, !.callbackResult = 1]
  /\ UNCHANGED <<mFdEvents, looperFd, mFinishQueue, mBatchedInputEventPending>>
  /\ consumeLocalsUnchanged /\ histUnchanged

\* error or hangup: return 0, the Looper removes the callback
handleEventError(events) ==
  /\ events \cap {ALOOPER_EVENT_ERROR, ALOOPER_EVENT_HANGUP} # {}
  /\ looperFd' = {}
  /\ step' = [Step("handleEvent") EXCEPT !.events = events, !.callbackResult = 0]
  /\ UNCHANGED <<mFdEvents, mFinishQueue, mBatchedInputEventPending>>
  /\ consumeLocalsUnchanged /\ histUnchanged

\* read-readiness: consumeEvents(env, false, -1, nullptr); its loop runs next
handleEventInput(events) ==
  /\ events \cap {ALOOPER_EVENT_ERROR, ALOOPER_EVENT_HANGUP} = {}
  /\ ALOOPER_EVENT_INPUT \in events
  /\ pc' = "consume"
  /\ caller' = "handleEvent"
  /\ consumeBatches' = FALSE
  /\ skipCallbacks' = FALSE
  /\ receiverObj' = FALSE
  /\ step' = [Step("handleEvent") EXCEPT !.events = events]
  /\ UNCHANGED <<mFdEvents, looperFd, mFinishQueue, mBatchedInputEventPending>>
  /\ histUnchanged

\* write-readiness: flush mFinishQueue
handleEventOutput(events, sends) ==
  /\ events \cap {ALOOPER_EVENT_ERROR, ALOOPER_EVENT_HANGUP} = {}
  /\ ALOOPER_EVENT_INPUT \notin events
  /\ ALOOPER_EVENT_OUTPUT \in events
  /\ \E k \in 0..Len(mFinishQueue), status \in sends :
       /\ (k = Len(mFinishQueue)) = (status = OK)
       /\ LET r == flushFinishQueue(mFinishQueue, mFdEvents, looperFd, k, status)
          IN /\ mFinishQueue' = r.queue
             /\ mFdEvents' = r.fd
             /\ looperFd' = IF r.ret = 0 THEN {} ELSE r.looper
             /\ accepted' = accepted \o r.sent
             /\ step' = [Step("handleEvent") EXCEPT
                           !.events = events, !.sendStatus = status,
                           !.nSent = Len(r.sent), !.looperCall = r.call,
                           !.fault = r.fault, !.callbackResult = r.ret]
  /\ UNCHANGED <<mBatchedInputEventPending>>
  /\ consumeLocalsUnchanged
  /\ evtUnchanged
  /\ UNCHANGED <<lastSeq, nEvents, nSigs, outstanding,
                 prevSig, sigChanges, scenarioPos, motionInfoCalls>>

\* neither bit: spurious callback, keep the registration
handleEventSpurious(events) ==
  /\ events = {}
  /\ step' = [Step("handleEvent") EXCEPT !.events = events, !.callbackResult = 1]
  /\ UNCHANGED <<mFdEvents, looperFd, mFinishQueue, mBatchedInputEventPending>>
  /\ consumeLocalsUnchanged /\ histUnchanged

handleEvent(sends) ==
  /\ initialized /\ pc = "idle" /\ looperFd # {}
  /\ \E events \in DeliverableEvents :
       \/ handleEventError(events)
       \/ handleEventInput(events)
       \/ handleEventOutput(events, sends)
       \/ handleEventSpurious(events)
  /\ UNCHANGED <<initialized, disposed, receiverAlive>>
  /\ motionUnchanged

\* ------------------------------------------- nativeConsumeBatchedInputEvents
\* consumeEvents(env, true, frameTimeNanos, &consumedBatch): the entry of
\* consumeEvents clears the batch flag; its loop runs next.
nativeConsumeBatchedInputEvents ==
  /\ initialized /\ pc = "idle"
  /\ mBatchedInputEventPending' = FALSE
  /\ pc' = "consume"
  /\ caller' = "jni"
  /\ consumeBatches' = TRUE
  /\ skipCallbacks' = FALSE
  /\ receiverObj' = FALSE
  /\ step' = Step("nativeConsumeBatchedInputEvents")
  /\ UNCHANGED <<initialized, disposed, mFdEvents, looperFd, mFinishQueue, receiverAlive>>
  /\ motionUnchanged /\ histUnchanged

\* ------------------------------------------------------ receiver finalized
\* The Java receiver is collected: mReceiverWeakGlobal no longer resolves.
finalizeReceiver ==
  /\ initialized /\ pc = "idle" /\ receiverAlive
  /\ receiverAlive' = FALSE
  /\ step' = Step("finalizeReceiver")
  /\ UNCHANGED <<initialized, disposed, mFdEvents, looperFd, mFinishQueue,
                 mBatchedInputEventPending>>
  /\ motionUnchanged /\ consumeLocalsUnchanged /\ histUnchanged

\* ------------------------------------------------------------ consumeEvents
\* What one InputConsumer::consume call can hand back: a status, for OK a
\* fresh sequence number and an event type, and the out-parameters flag,
\* motionEventType and touchMoveNum.
TransportResults(maxEvents, maxSigs) ==
  {r \in [status : ConsumeStatus, seq : 0..MaxSeq, kind : EventTypes \cup {"none"},
          flag : BOOLEAN, motionEventType : MotionEventTypes \cup {-1},
          touchMoveNum : TouchMoveNums \cup {-1}] :
     /\ (r.status = OK) => (nEvents < maxEvents /\ r.seq = lastSeq + 1 /\ r.kind # "none")
     /\ (r.status # OK) => (r.seq = 0 /\ r.kind = "none")
     /\ r.flag => (nSigs < maxSigs /\ r.motionEventType # -1 /\ r.touchMoveNum # -1)
     /\ ~r.flag => (r.motionEventType = -1 /\ r.touchMoveNum = -1)}

\* the transport has handed out r
Consumed(r) ==
  /\ lastSeq' = IF r.status = OK THEN r.seq ELSE lastSeq
  /\ nEvents' = IF r.status = OK THEN nEvents + 1 ELSE nEvents
  /\ nSigs' = IF r.flag THEN nSigs + 1 ELSE nSigs

\* the test with && between the two comparisons
motionInfoChanged_BothDiffer(flag, lastType, lastNum, motionEventType, touchMoveNum) ==
  flag /\ (lastType # motionEventType /\ lastNum # touchMoveNum)

\* the test that guards dispatchMotionEventInfo
motionInfoChanged(flag, lastType, lastNum, motionEventType, touchMoveNum) ==
  flag /\ (lastType # motionEventType \/ lastNum # touchMoveNum)

\* dispatchMotionEventInfo, if due, and the remembered signature
MotionInfo(r) ==
  LET due == motionInfoChanged(r.flag, mLastMotionEventType, mLastTouchMoveNum,
                               r.motionEventType, r.touchMoveNum)
  IN /\ mLastMotionEventType' = IF due THEN r.motionEventType ELSE mLastMotionEventType
     /\ mLastTouchMoveNum' = IF due THEN r.touchMoveNum ELSE mLastTouchMoveNum
     /\ motionInfoCalls' = IF due THEN motionInfoCalls + 1 ELSE motionInfoCalls
     /\ prevSig' = IF r.flag THEN <<r.motionEventType, r.touchMoveNum>> ELSE prevSig
     /\ sigChanges' = IF r.flag /\ <<r.motionEventType, r.touchMoveNum>> # prevSig
                        THEN sigChanges + 1 ELSE sigChanges
     /\ scenarioPos' = IF ~r.flag THEN scenarioPos
                       ELSE IF scenarioPos >= 0 /\ scenarioPos < Len(MotionScenario)
                               /\ MotionScenario[scenarioPos + 1]
                                    = <<r.motionEventType, r.touchMoveNum>>
                         THEN scenarioPos + 1 ELSE -1

MotionInfoCall(r) ==
  IF motionInfoChanged(r.flag, mLastMotionEventType, mLastTouchMoveNum,
                       r.motionEventType, r.touchMoveNum) THEN 1 ELSE 0

\* consumeEvents returns status to its caller; handleEvent turns it into
\* its own result, and on 0 the Looper drops the callback.  lp is the
\* Looper's mask as the iteration left it.
ConsumeReturn(status, lp) ==
  /\ pc' = "idle"
  /\ caller' = "none"
  /\ looperFd' = IF caller = "handleEvent" /\ handleEventResult(status) = 0 THEN {} ELSE lp
  /\ UNCHANGED consumeBatches

ReturnedStep(s, status) ==
  [s EXCEPT !.ret = status,
            !.callbackResult = IF caller = "handleEvent" THEN handleEventResult(status) ELSE -1]

IterStep(r) ==
  [Step("consumeEvents") EXCEPT !.status = r.status, !.seq = r.seq, !.kind = r.kind,
                                !.skip = skipCallbacks]

\* the receiver check placed after the dispatchMotionEventInfo block
ConsumeDetached_AfterMotionInfo(r) ==
  /\ ~receiverObj /\ ~receiverAlive
  /\ Consumed(r)
  /\ MotionInfo(r)
  /\ ConsumeReturn(DEAD_OBJECT, looperFd)
  /\ decoded' = IF r.status = OK THEN [decoded EXCEPT ![r.seq] = "detached"] ELSE decoded
  /\ UNCHANGED <<onEventCalls, onFocusCalls, autoBlocked>>
  /\ step' = ReturnedStep([IterStep(r) EXCEPT !.detached = TRUE,
                                              !.nMotionInfo = MotionInfoCall(r)], DEAD_OBJECT)
  /\ UNCHANGED <<mFdEvents, mFinishQueue, mBatchedInputEventPending,
                 skipCallbacks, receiverObj, outstanding, accepted>>

\* the receiver object was finalized: return DEAD_OBJECT
ConsumeDetached(r) ==
  /\ ~receiverObj /\ ~receiverAlive
  /\ Consumed(r)
  /\ ConsumeReturn(DEAD_OBJECT, looperFd)
  /\ decoded' = IF r.status = OK THEN [decoded EXCEPT ![r.seq] = "detached"] ELSE decoded
  /\ UNCHANGED <<onEventCalls, onFocusCalls, autoBlocked>>
  /\ step' = ReturnedStep([IterStep(r) EXCEPT !.detached = TRUE], DEAD_OBJECT)
  /\ UNCHANGED <<mFdEvents, mFinishQueue, mBatchedInputEventPending,
                 skipCallbacks, receiverObj, outstanding, accepted,
                 prevSig, sigChanges, scenarioPos, motionInfoCalls>>
  /\ motionUnchanged

\* a transport error other than WOULD_BLOCK: return it
ConsumeError(r) ==
  /\ receiverObj \/ receiverAlive
  /\ r.status # OK /\ r.status # WOULD_BLOCK
  /\ Consumed(r)
  /\ MotionInfo(r)
  /\ receiverObj' = TRUE
  /\ ConsumeReturn(r.status, looperFd)
  /\ step' = ReturnedStep([IterStep(r) EXCEPT !.nMotionInfo = MotionInfoCall(r)], r.status)
  /\ evtUnchanged
  /\ UNCHANGED <<mFdEvents, mFinishQueue, mBatchedInputEventPending,
                 skipCallbacks, outstanding, accepted>>

\* the test without !mBatchedInputEventPending
batchNotifyDue_IgnoresPending(skip, pending, hasPendingBatch) == ~skip /\ hasPendingBatch

\* the test that guards the batch-pending notification
batchNotifyDue(skip, pending, hasPendingBatch) == ~skip /\ ~pending /\ hasPendingBatch

\* WOULD_BLOCK: if a batch-pending notification is due, set the flag and
\* call onBatchedInputEventPending (the call returns in the next step);
\* otherwise return OK
ConsumeWouldBlock(r) ==
  /\ receiverObj \/ receiverAlive
  /\ r.status = WOULD_BLOCK
  /\ Consumed(r)
  /\ MotionInfo(r)
  /\ receiverObj' = TRUE
  /\ \E hasPendingBatch \in BOOLEAN :
       LET due == batchNotifyDue(skipCallbacks, mBatchedInputEventPending, hasPendingBatch)
           s == [IterStep(r) EXCEPT !.nMotionInfo = MotionInfoCall(r),
                                    !.hasPendingBatch = hasPendingBatch,
                                    !.nBatch = IF due THEN 1 ELSE 0]
       IN IF due
            THEN /\ mBatchedInputEventPending' = TRUE
                 /\ pc' = "batchCallback"
                 /\ step' = s
                 /\ UNCHANGED <<caller, consumeBatches, looperFd>>
            ELSE /\ ConsumeReturn(OK, looperFd)
                 /\ step' = ReturnedStep(s, OK)
                 /\ UNCHANGED mBatchedInputEventPending
  /\ evtUnchanged
  /\ UNCHANGED <<mFdEvents, mFinishQueue, skipCallbacks, outstanding, accepted>>

\* the return from the callback without the reset on an exception
onBatchedInputEventPendingReturns_KeepsFlag ==
  /\ pc = "batchCallback"
  /\ \E exception \in BOOLEAN :
       step' = ReturnedStep([step EXCEPT !.fault = exception], OK)
  /\ ConsumeReturn(OK, looperFd)
  /\ UNCHANGED <<initialized, disposed, receiverAlive, mFdEvents, mFinishQueue,
                 mBatchedInputEventPending, skipCallbacks, receiverObj>>
  /\ motionUnchanged /\ histUnchanged

\* onBatchedInputEventPending has returned: on an exception the flag is reset
\* ("try again later"); consumeEvents returns OK
onBatchedInputEventPendingReturns ==
  /\ pc = "batchCallback"
  /\ \E exception \in BOOLEAN :
       /\ mBatchedInputEventPending' = IF exception THEN FALSE ELSE mBatchedInputEventPending
       /\ step' = ReturnedStep([step EXCEPT !.fault = exception], OK)
  /\ ConsumeReturn(OK, looperFd)
  /\ UNCHANGED <<initialized, disposed, receiverAlive, mFdEvents, mFinishQueue,
                 skipCallbacks, receiverObj>>
  /\ motionUnchanged /\ histUnchanged

\* the switch that does not look at ExceptionCheck() after dispatchInputEvent
dispatchEvent_IgnoresException(kind, obj, exception) ==
  IF kind = AINPUT_EVENT_TYPE_FOCUS
    THEN [nEvent |-> 0, nFocus |-> 1, skip |-> FALSE, finish |-> TRUE, return |-> TRUE]
  ELSE IF obj = "built"
    THEN [nEvent |-> 1, nFocus |-> 0, skip |-> FALSE, finish |-> FALSE, return |-> FALSE]
  ELSE [nEvent |-> 0, nFocus |-> 0, skip |-> TRUE, finish |-> FALSE, return |-> FALSE]

\* the switch with a Focus case that falls through to dispatchInputEvent
dispatchEvent_FocusAlsoDispatched(kind, obj, exception) ==
  IF kind = AINPUT_EVENT_TYPE_FOCUS
    THEN [nEvent |-> 1, nFocus |-> 1, skip |-> FALSE, finish |-> TRUE, return |-> TRUE]
  ELSE IF obj = "built"
    THEN [nEvent |-> 1, nFocus |-> 0, skip |-> exception, finish |-> FALSE, return |-> FALSE]
  ELSE [nEvent |-> 0, nFocus |-> 0, skip |-> TRUE, finish |-> FALSE, return |-> FALSE]

\* the switch with a Focus case that breaks instead of returning
dispatchEvent_FocusNoReturn(kind, obj, exception) ==
  IF kind = AINPUT_EVENT_TYPE_FOCUS
    THEN [nEvent |-> 0, nFocus |-> 1, skip |-> FALSE, finish |-> TRUE, return |-> FALSE]
  ELSE IF obj = "built"
    THEN [nEvent |-> 1, nFocus |-> 0, skip |-> exception, finish |-> FALSE, return |-> FALSE]
  ELSE [nEvent |-> 0, nFocus |-> 0, skip |-> TRUE, finish |-> FALSE, return |-> FALSE]

\* The switch over the event type with skipCallbacks false: the callbacks
\* made, the skip flag afterwards, and whether consumeEvents returns at once.
\* obj is "built" or "null" (inputEventObj); exception is ExceptionCheck()
\* after dispatchInputEvent.
dispatchEvent(kind, obj, exception) ==
  IF kind = AINPUT_EVENT_TYPE_FOCUS
    THEN [nEvent |-> 0, nFocus |-> 1, skip |-> FALSE, finish |-> TRUE, return |-> TRUE]
  ELSE IF obj = "built"
    THEN [nEvent |-> 1, nFocus |-> 0, skip |-> exception, finish |-> FALSE, return |-> FALSE]
  ELSE [nEvent |-> 0, nFocus |-> 0, skip |-> TRUE, finish |-> FALSE, return |-> FALSE]

\* what the handler does inside dispatchInputEvent
HandlerOutcomes == {"returns", "throws", "finishes"}

\* an event was decoded: dispatch it, or auto-finish it in skip-state
ConsumeDispatch(r, sends) ==
  /\ receiverObj \/ receiverAlive
  /\ r.status = OK
  /\ Consumed(r)
  /\ MotionInfo(r)
  /\ receiverObj' = TRUE
  /\ \E obj \in {"built", "null"}, outcome \in HandlerOutcomes,
        handled \in BOOLEAN, sendStatus \in sends :
       \* inputs that the path taken does not read are fixed
       /\ (skipCallbacks \/ r.kind = AINPUT_EVENT_TYPE_FOCUS) => (obj = "built" /\ outcome = "returns")
       /\ (obj = "null") => (outcome = "returns")
       /\ (outcome # "finishes" /\ (r.kind # AINPUT_EVENT_TYPE_FOCUS \/ skipCallbacks))
            => handled = FALSE
       /\ (r.kind = AINPUT_EVENT_TYPE_FOCUS /\ ~skipCallbacks) => handled = TRUE
       /\ LET d == IF skipCallbacks
                     THEN [nEvent |-> 0, nFocus |-> 0, skip |-> TRUE,
                           finish |-> FALSE, return |-> FALSE]
                     ELSE dispatchEvent(r.kind, obj, outcome = "throws")
              \* finishInputEvent: from the Focus case, or from inside the handler
              viaFinish == d.finish \/ (d.nEvent = 1 /\ outcome = "finishes")
              f == IF viaFinish
                     THEN finishInputEvent(mFinishQueue, mFdEvents, looperFd,
                                           r.seq, handled, sendStatus)
                     ELSE [queue |-> mFinishQueue, fd |-> mFdEvents, looper |-> looperFd,
                           call |-> "none", sent |-> <<>>, ret |-> "none"]
              \* skip-state: mInputConsumer.sendFinishedSignal(seq, false), result dropped
              auto == d.skip /\ ~d.return
              autoSent == IF auto /\ sendStatus = OK
                            THEN <<Finish(r.seq, FALSE)>> ELSE <<>>
              used == viaFinish \/ auto
              \* the callback threw, or there was no object to hand over
              failed == ~skipCallbacks /\ r.kind # AINPUT_EVENT_TYPE_FOCUS
                          /\ (obj = "null" \/ outcome = "throws")
          IN /\ (~used => sendStatus = OK)
             /\ ~(viaFinish /\ auto)
             /\ mFinishQueue' = f.queue
             /\ mFdEvents' = f.fd
             /\ accepted' = accepted \o f.sent \o autoSent
             /\ skipCallbacks' = d.skip
             /\ outstanding' = IF d.nEvent = 1 /\ outcome = "returns"
                                 THEN outstanding \cup {r.seq} ELSE outstanding
             /\ decoded' = [decoded EXCEPT ![r.seq] =
                              IF skipCallbacks THEN "skip"
                              ELSE IF r.kind = AINPUT_EVENT_TYPE_FOCUS THEN "focus"
                              ELSE IF obj = "built" THEN "dispatch" ELSE "null"]
             /\ onEventCalls' = [onEventCalls EXCEPT ![r.seq] = @ + d.nEvent]
             /\ onFocusCalls' = [onFocusCalls EXCEPT ![r.seq] = @ + d.nFocus]
             /\ autoBlocked' = IF auto /\ sendStatus = WOULD_BLOCK
                                 THEN autoBlocked \cup {r.seq} ELSE autoBlocked
             /\ IF d.return
                  THEN /\ ConsumeReturn(OK, f.looper)
                       /\ step' = ReturnedStep(
                            [IterStep(r) EXCEPT !.nMotionInfo = MotionInfoCall(r),
                               !.nEvent = d.nEvent, !.nFocus = d.nFocus,
                               !.handled = handled, !.finishReq = viaFinish,
                               !.sendStatus = IF used THEN sendStatus ELSE "none",
                               !.nSent = Len(f.sent) + Len(autoSent), !.fault = failed,
                               !.looperCall = f.call], OK)
                  ELSE /\ looperFd' = f.looper
                       /\ UNCHANGED <<pc, caller, consumeBatches>>
                       /\ step' = [IterStep(r) EXCEPT !.nMotionInfo = MotionInfoCall(r),
                               !.nEvent = d.nEvent, !.nFocus = d.nFocus,
                               !.handled = handled, !.finishReq = viaFinish,
                               !.sendStatus = IF used THEN sendStatus ELSE "none",
                               !.nSent = Len(f.sent) + Len(autoSent), !.fault = failed,
                               !.looperCall = f.call]
  /\ UNCHANGED mBatchedInputEventPending

\* one iteration of the for (;;) loop of consumeEvents
consumeEvents(maxEvents, maxSigs, sends) ==
  /\ pc = "consume"
  /\ \E r \in TransportResults(maxEvents, maxSigs) :
       \/ ConsumeDetached(r)
       \/ ConsumeError(r)
       \/ ConsumeWouldBlock(r)
       \/ ConsumeDispatch(r, sends)
  /\ UNCHANGED <<initialized, disposed, receiverAlive>>

\* sends: what the transport's write path may return in the run
Next ==
  \/ nativeInit
  \/ nativeDispose
  \/ nativeFinishInputEvent(SendStatus)
  \/ nativeConsumeBatchedInputEvents
  \/ handleEvent(SendStatus)
  \/ consumeEvents(MaxEvents, 0, SendStatus)   \* no result carries a sub-signature here
  \/ onBatchedInputEventPendingReturns
  \/ finalizeReceiver

Spec == Init /\ [][Next]_vars

\* The same program with results that carry a sub-signature, fewer events,
\* and a write path that accepts every acknowledgement.
NextMotion ==
  \/ nativeInit
  \/ nativeDispose
  \/ nativeFinishInputEvent({OK})
  \/ nativeConsumeBatchedInputEvents
  \/ handleEvent({OK})
  \/ consumeEvents(MaxMotionEvents, MaxMotionSigs, {OK})
  \/ onBatchedInputEventPendingReturns
  \/ finalizeReceiver

SpecMotion == Init /\ [][NextMotion]_vars

\* ====================================================================
\* Properties
\* ====================================================================
Last(q) == q[Len(q)]
InQueue(f) == \E i \in 1..Len(mFinishQueue) : mFinishQueue[i] = f
InAccepted(f) == \E i \in 1..Len(accepted) : accepted[i] = f
\* a consumeEvents iteration that passed the receiver check
Iteration == step.op = "consumeEvents" /\ ~step.detached
\* a step in which finishInputEvent ran
FinishStep == step.finishReq
\* a handleEvent call that took the write-readiness branch
FlushStep ==
  /\ step.op = "handleEvent"
  /\ ALOOPER_EVENT_OUTPUT \in step.events
  /\ step.events \cap {ALOOPER_EVENT_INPUT, ALOOPER_EVENT_ERROR, ALOOPER_EVENT_HANGUP} = {}

\* C1: acknowledgements are accepted by the transport in the order they were
\* requested: while records wait in mFinishQueue, whatever the transport
\* accepts in a step is a prefix of the queue, never a later request.
C1_AcceptedInRequestOrder ==
  [][accepted' # accepted =>
       \/ mFinishQueue = <<>>
       \/ \E k \in 1..Len(mFinishQueue) :
            accepted' = accepted \o SubSeq(mFinishQueue, 1, k)]_vars

\* C2: an event auto-finished in skip-state while the write path returns
\* WOULD_BLOCK is not lost: its acknowledgement (seq, handled=false) has been
\* accepted by the transport or waits in mFinishQueue for the next flush,
\* which is the only way it can still be sent.
C2_SkipFinishNotLost ==
  \A s \in autoBlocked : InAccepted(Finish(s, FALSE)) \/ InQueue(Finish(s, FALSE))

\* C3 as stated: in every reachable state, mFinishQueue is non-empty iff
\* mFdEvents contains the OUTPUT bit.
C3_QueueIffOutput ==
  (mFinishQueue # <<>>) <=> (ALOOPER_EVENT_OUTPUT \in mFdEvents)

\* C3 as amended: the OUTPUT bit in mFdEvents implies a non-empty queue in
\* every reachable state, and a non-empty queue implies the OUTPUT bit in
\* every state reached without dispose().
C3_QueueIffOutputUntilDispose ==
  /\ (ALOOPER_EVENT_OUTPUT \in mFdEvents) => (mFinishQueue # <<>>)
  /\ ~disposed => ((mFinishQueue # <<>>) => (ALOOPER_EVENT_OUTPUT \in mFdEvents))

C3_Witness ==
  /\ ~disposed
  /\ Len(mFinishQueue) = 2
  /\ ALOOPER_EVENT_OUTPUT \in mFdEvents

\* C4 as stated: every event that consumeEvents decoded while the skip flag
\* was false has received exactly one callback (dispatchInputEvent or
\* onFocusEvent).
C4_ExactlyOneCallback ==
  \A s \in 1..MaxSeq :
    decoded[s] \in {"dispatch", "null", "focus"} => onEventCalls[s] + onFocusCalls[s] = 1

\* C4 as amended: an event decoded while the skip flag was false has received
\* exactly one dispatchInputEvent and no onFocusEvent if it is a Key or Motion
\* event whose event object was built, exactly one onFocusEvent and no
\* dispatchInputEvent if it is a Focus event, and no callback at all if its
\* event object could not be built.
C4_OneCallbackWhenBuilt ==
  \A s \in 1..MaxSeq :
    /\ decoded[s] = "dispatch" => (onEventCalls[s] = 1 /\ onFocusCalls[s] = 0)
    /\ decoded[s] = "focus" => (onEventCalls[s] = 0 /\ onFocusCalls[s] = 1)
    /\ decoded[s] = "null" => (onEventCalls[s] = 0 /\ onFocusCalls[s] = 0)

C4_Witness ==
  \E s, t \in 1..MaxSeq :
    /\ decoded[s] = "dispatch" /\ onEventCalls[s] = 1
    /\ decoded[t] = "focus" /\ onFocusCalls[t] = 1

\* C5: an iteration of consumeEvents that decodes a Focus event outside
\* skip-state calls onFocusEvent once and dispatchInputEvent not at all,
\* hands (seq, handled=true) to finishInputEvent (accepted by the transport
\* on OK, appended to mFinishQueue on WOULD_BLOCK), and returns OK at once:
\* the call has ended.
C5_FocusDeliveredAndFinished ==
  (Iteration /\ step.status = OK /\ step.kind = AINPUT_EVENT_TYPE_FOCUS /\ ~step.skip) =>
    /\ step.nFocus = 1
    /\ step.nEvent = 0
    /\ step.finishReq /\ step.handled
    /\ step.sendStatus = OK =>
         (accepted # <<>> /\ Last(accepted) = Finish(step.seq, TRUE)
            /\ mFinishQueue = step.queueBefore)
    /\ step.sendStatus = WOULD_BLOCK =>
         mFinishQueue = Append(step.queueBefore, Finish(step.seq, TRUE))
    /\ step.ret = OK
    /\ pc = "idle"

C5_Witness ==
  /\ Iteration /\ step.status = OK /\ step.kind = AINPUT_EVENT_TYPE_FOCUS /\ ~step.skip
  /\ step.sendStatus = WOULD_BLOCK
  /\ mFinishQueue # <<>> /\ Last(mFinishQueue) = Finish(step.seq, TRUE)
  /\ pc = "idle"

\* C6 as stated: an iteration that reaches WOULD_BLOCK while the transport
\* reports a pending batch and mBatchedInputEventPending is false calls
\* onBatchedInputEventPending once and leaves the flag true; with the flag
\* true no call is made; the entry of consumeEvents(consumeBatches=true)
\* leaves the flag false.
C6_BatchNotifiedOnce ==
  /\ (Iteration /\ step.status = WOULD_BLOCK /\ step.hasPendingBatch /\ ~step.pendingBefore)
       => (step.nBatch = 1 /\ mBatchedInputEventPending)
  /\ (Iteration /\ step.pendingBefore) => step.nBatch = 0
  /\ step.op = "nativeConsumeBatchedInputEvents" => ~mBatchedInputEventPending

\* C6 as amended: such an iteration calls onBatchedInputEventPending once
\* exactly when it is not in skip-state, and leaves the flag true exactly
\* when it is not in skip-state and the callback did not fail (a failing
\* callback resets the flag to false); with the flag true no call is made;
\* the entry of consumeEvents(consumeBatches=true) leaves the flag false.
C6_BatchNotifiedOnceOutsideSkip ==
  /\ (Iteration /\ step.status = WOULD_BLOCK /\ step.hasPendingBatch /\ ~step.pendingBefore)
       => /\ (step.nBatch = 1) = ~step.skip
          /\ mBatchedInputEventPending = (~step.skip /\ ~step.fault)
  /\ (Iteration /\ step.pendingBefore) => (step.nBatch = 0 /\ mBatchedInputEventPending)
  /\ step.op = "nativeConsumeBatchedInputEvents" => ~mBatchedInputEventPending

C6_Witness ==
  /\ Iteration /\ step.status = WOULD_BLOCK /\ step.hasPendingBatch /\ ~step.pendingBefore
  /\ step.nBatch = 1
  /\ mBatchedInputEventPending

\* C7: dispatchMotionEventInfo has been called once for every sub-signature
\* that differed from the one handed over before it (from (-1,-1) at the
\* start), and not otherwise; the remembered signature is the one handed over
\* last; the sub-signatures (1,0),(1,0),(1,1),(2,0) make exactly 3 calls.
C7_MotionInfoOnChange ==
  /\ motionInfoCalls = sigChanges
  /\ <<mLastMotionEventType, mLastTouchMoveNum>> = prevSig
  /\ scenarioPos = Len(MotionScenario) => motionInfoCalls = 3

C7_Witness ==
  /\ scenarioPos = Len(MotionScenario)
  /\ motionInfoCalls = 3
  /\ <<mLastMotionEventType, mLastTouchMoveNum>> = <<2, 0>>

\* C8: a dispose() that directly follows a dispose() makes no Looper call
\* and changes nothing: the interest stays None.
C8_DisposeIdempotent ==
  [][(step.op = "nativeDispose" /\ step'.op = "nativeDispose") =>
       /\ step'.looperCall = "none"
       /\ mFdEvents' = {} /\ looperFd' = {}
       /\ UNCHANGED progVars]_vars

C8_Witness ==
  /\ step.op = "nativeDispose" /\ step.prev = "nativeDispose"
  /\ step.looperCall = "none"
  /\ mFdEvents = {} /\ looperFd = {}

\* C9: finishInputEvent whose send returns WOULD_BLOCK appends exactly the
\* record {seq, handled} at the tail and returns OK; it registers INPUT|OUTPUT
\* with the Looper when the queue was empty before, and makes no Looper call
\* when it was not; on a hard error it returns the error and leaves queue and
\* interest as they were.
C9_FinishEnqueuesOnWouldBlock ==
  FinishStep =>
    /\ step.sendStatus = WOULD_BLOCK =>
         /\ mFinishQueue = Append(step.queueBefore, Finish(step.seq, step.handled))
         /\ step.op = "nativeFinishInputEvent" => step.ret = OK
         /\ step.queueBefore = <<>> =>
              /\ step.looperCall = "addFd"
              /\ mFdEvents = {ALOOPER_EVENT_INPUT, ALOOPER_EVENT_OUTPUT}
              /\ looperFd = {ALOOPER_EVENT_INPUT, ALOOPER_EVENT_OUTPUT}
         /\ step.queueBefore # <<>> =>
              (step.looperCall = "none" /\ mFdEvents = step.fdBefore)
    /\ step.sendStatus \notin {OK, WOULD_BLOCK} =>
         /\ step.op = "nativeFinishInputEvent" => step.ret = step.sendStatus
         /\ mFinishQueue = step.queueBefore
         /\ mFdEvents = step.fdBefore
         /\ step.looperCall = "none"

C9_Witness ==
  /\ step.op = "nativeFinishInputEvent"
  /\ step.sendStatus = WOULD_BLOCK
  /\ Len(step.queueBefore) = 1
  /\ Len(mFinishQueue) = 2
  /\ step.looperCall = "none"

\* C10: a write-readiness callback in which the transport accepts every
\* queued record sends the records in queue order, leaves the queue empty
\* and the interest INPUT only (re-registered if it was INPUT|OUTPUT), and
\* returns 1.
C10_FlushAllDowngrades ==
  (FlushStep /\ step.sendStatus = OK) =>
    /\ mFinishQueue = <<>>
    /\ step.nSent = Len(step.queueBefore)
    /\ Len(accepted) >= Len(step.queueBefore)
    /\ SubSeq(accepted, Len(accepted) - Len(step.queueBefore) + 1, Len(accepted))
         = step.queueBefore
    /\ mFdEvents = {ALOOPER_EVENT_INPUT}
    /\ step.fdBefore = {ALOOPER_EVENT_INPUT, ALOOPER_EVENT_OUTPUT} =>
         (step.looperCall = "addFd" /\ looperFd = {ALOOPER_EVENT_INPUT})
    /\ step.callbackResult = 1

\* the scenario: sequence 5 was queued on a full write buffer, then flushed
C10_Witness ==
  /\ FlushStep /\ step.sendStatus = OK
  /\ Len(step.queueBefore) = 1 /\ step.queueBefore[1].seq = 5
  /\ step.fdBefore = {ALOOPER_EVENT_INPUT, ALOOPER_EVENT_OUTPUT}
  /\ accepted # <<>> /\ Last(accepted).seq = 5
  /\ mFinishQueue = <<>>
  /\ mFdEvents = {ALOOPER_EVENT_INPUT}

\* C11: once dispose() has run, the interest is None (in mFdEvents and at
\* the Looper) and stays None, and mFinishQueue does not grow, whatever
\* finishInputEvent or consumeEvents call follows.
C11_DisposedStaysNone ==
  [][disposed =>
       /\ mFdEvents' = {} /\ looperFd' = {}
       /\ Len(mFinishQueue') <= Len(mFinishQueue)]_vars

\* a consumeEvents iteration that returned to handleEvent
ReadCallbackReturned == step.op = "consumeEvents" /\ step.callbackResult # -1

\* C12 as stated: handleEvent runs consumeEvents with consumeBatches=false;
\* when that call returns, the callback returns 1 exactly when the status is
\* OK, and for every other status it returns 0 and the Looper has dropped
\* the registration.
C12_OnlySuccessKeepsRegistration ==
  /\ (pc = "consume" /\ caller = "handleEvent") => ~consumeBatches
  /\ ReadCallbackReturned =>
       /\ pc = "idle"
       /\ (step.callbackResult = 1) = (step.ret = OK)
       /\ step.ret # OK => looperFd = {}
       /\ step.ret = OK => looperFd # {}

\* C12 as amended: the callback returns 1 and the registration is kept
\* exactly when the status is OK or NO_MEMORY; for every other status it
\* returns 0 and the Looper has dropped the registration.
C12_SuccessOrNoMemoryKeepsRegistration ==
  /\ (pc = "consume" /\ caller = "handleEvent") => ~consumeBatches
  /\ ReadCallbackReturned =>
       /\ pc = "idle"
       /\ (step.callbackResult = 1) = (step.ret \in {OK, NO_MEMORY})
       /\ step.ret \notin {OK, NO_MEMORY} => looperFd = {}
       /\ step.ret \in {OK, NO_MEMORY} => looperFd # {}

C12_Witness ==
  /\ ReadCallbackReturned
  /\ ~step.detached
  /\ step.ret = UNKNOWN_ERROR
  /\ step.callbackResult = 0
  /\ looperFd = {}

\* C13: a write-readiness callback over the queue q in which the first i
\* sends succeed and the send of the next record returns WOULD_BLOCK has
\* handed exactly q[1..i] to the transport, in order, leaves the queue
\* q[i+1..n] (the blocking record first), leaves the interest as it was with
\* the OUTPUT bit still registered at the Looper, and returns 1.
C13_FlushWouldBlockKeepsRest ==
  (FlushStep /\ step.sendStatus = WOULD_BLOCK) =>
    LET q == step.queueBefore
        i == step.nSent
    IN /\ i < Len(q)
       /\ mFinishQueue = SubSeq(q, i + 1, Len(q))
       /\ mFinishQueue[1] = q[i + 1]
       /\ Len(accepted) >= i
       /\ SubSeq(accepted, Len(accepted) - i + 1, Len(accepted)) = SubSeq(q, 1, i)
       /\ mFdEvents = step.fdBefore
       /\ step.looperCall = "none"
       /\ ALOOPER_EVENT_OUTPUT \in looperFd
       /\ step.callbackResult = 1

\* the scenario: two records queued, the first is sent, the second blocks
C13_Witness ==
  /\ FlushStep /\ step.sendStatus = WOULD_BLOCK
  /\ Len(step.queueBefore) = 2
  /\ step.nSent = 1
  /\ mFinishQueue = <<step.queueBefore[2]>>
  /\ accepted # <<>> /\ Last(accepted) = step.queueBefore[1]
  /\ ALOOPER_EVENT_OUTPUT \in looperFd

\* C14: a write-readiness callback over the queue q in which the first i
\* sends succeed and the send of the next record fails with a status other
\* than WOULD_BLOCK has handed exactly q[1..i] to the transport and removed
\* them from the queue, has raised the RuntimeException fault exactly when
\* the status is not DEAD_OBJECT, and returns 0, after which the Looper holds
\* no registration for the descriptor, neither for INPUT nor for OUTPUT.
C14_FlushHardErrorDeregisters ==
  (FlushStep /\ step.sendStatus \notin {OK, WOULD_BLOCK}) =>
    LET q == step.queueBefore
        i == step.nSent
    IN /\ i < Len(q)
       /\ mFinishQueue = SubSeq(q, i + 1, Len(q))
       /\ Len(accepted) >= i
       /\ SubSeq(accepted, Len(accepted) - i + 1, Len(accepted)) = SubSeq(q, 1, i)
       /\ step.fault = (step.sendStatus # DEAD_OBJECT)
       /\ step.callbackResult = 0
       /\ looperFd = {}

\* the scenario: two records queued, the first is sent, the second fails hard
C14_Witness ==
  /\ FlushStep /\ step.sendStatus = UNKNOWN_ERROR
  /\ Len(step.queueBefore) = 2
  /\ step.nSent = 1
  /\ mFinishQueue = <<step.queueBefore[2]>>
  /\ step.fault
  /\ looperFd = {}

\* an iteration that decoded a Key or Motion event and either found the
\* invocation in skip-state or put it there (callback threw, no object built)
SkipIteration ==
  /\ Iteration /\ step.status = OK
  /\ step.kind \in {AINPUT_EVENT_TYPE_KEY, AINPUT_EVENT_TYPE_MOTION}
  /\ (step.skip \/ step.fault)

\* C15: in one consumeEvents invocation, the Key or Motion event whose
\* dispatchInputEvent threw or whose object could not be built, and every
\* Key or Motion event decoded after it, is finished by the receiver itself
\* with sendFinishedSignal(seq, false) and, once the invocation is in
\* skip-state, gets no dispatchInputEvent call; the loop goes on decoding in
\* skip-state until the transport returns WOULD_BLOCK, on which the
\* invocation returns OK, or an error, which it returns; every invocation
\* starts with the skip flag false.
C15_SkipStateAutoFinishes ==
  /\ SkipIteration =>
       /\ ~step.finishReq /\ step.sendStatus # "none" /\ ~step.handled
       /\ step.sendStatus = OK =>
            (accepted # <<>> /\ Last(accepted) = Finish(step.seq, FALSE))
       /\ step.skip => step.nEvent = 0
       /\ step.nFocus = 0
       /\ skipCallbacks
       /\ pc = "consume"
  /\ \A s \in 1..MaxSeq :
       /\ decoded[s] = "skip" => onEventCalls[s] = 0
       /\ onEventCalls[s] <= 1
  /\ (Iteration /\ step.skip /\ step.status = OK) => (skipCallbacks /\ pc = "consume")
  /\ (Iteration /\ step.skip /\ step.status = WOULD_BLOCK) => (step.ret = OK /\ pc = "idle")
  /\ (Iteration /\ step.skip /\ step.status \notin {OK, WOULD_BLOCK}) =>
       (step.ret = step.status /\ pc = "idle")
  /\ (pc = "consume" /\ step.op # "consumeEvents") => ~skipCallbacks

\* the scenario: the first event's callback throws, the second event is
\* auto-finished without a callback, then the transport runs dry
C15_Witness ==
  /\ Iteration /\ step.skip /\ step.status = WOULD_BLOCK
  /\ step.ret = OK
  /\ \E s, t \in 1..MaxSeq :
       /\ s < t
       /\ decoded[s] = "dispatch" /\ onEventCalls[s] = 1 /\ s \notin outstanding
       /\ decoded[t] = "skip" /\ onEventCalls[t] = 0
       /\ InAccepted(Finish(s, FALSE)) /\ InAccepted(Finish(t, FALSE))

\* a new invocation after one that ended in skip-state dispatches again
C15_WitnessNextInvocation ==
  /\ \E s, t \in 1..MaxSeq :
       /\ s < t
       /\ decoded[s] = "null"
       /\ decoded[t] = "dispatch" /\ onEventCalls[t] = 1
  /\ step.op = "consumeEvents" /\ step.nEvent = 1 /\ ~step.skip

\* C16: an iteration of consumeEvents that decodes a Focus event, in
\* skip-state or not, calls onFocusEvent once and dispatchInputEvent not at
\* all and finishes the event through finishInputEvent(seq, true); it never
\* sends the skip-state acknowledgement sendFinishedSignal(seq, false).
C16_FocusNeverSkipped ==
  (Iteration /\ step.status = OK /\ step.kind = AINPUT_EVENT_TYPE_FOCUS) =>
    /\ step.nFocus = 1
    /\ step.nEvent = 0
    /\ step.finishReq /\ step.handled
    /\ step.sendStatus = OK =>
         (accepted # <<>> /\ Last(accepted) = Finish(step.seq, TRUE))

\* C17 as stated: mBatchedInputEventPending goes from true to false only in
\* the step that enters consumeEvents with consumeBatches=true (so that
\* between two such steps it can go from false to true only once).
C17_ClearedOnlyAtBatchConsume ==
  [][(mBatchedInputEventPending /\ ~mBatchedInputEventPending') =>
       step'.op = "nativeConsumeBatchedInputEvents"]_vars

\* C17 as amended: the flag goes from true to false only at the entry of
\* consumeEvents with consumeBatches=true or when onBatchedInputEventPending
\* returns with an exception; it goes from false to true exactly when
\* onBatchedInputEventPending is called, which happens only while it is
\* false; a call that returns without an exception leaves it true.  Hence
\* between two entries of consumeEvents(consumeBatches=true) at most one
\* call returns without an exception, and every call before it failed.
C17_ClearedAtBatchConsumeOrFailedCallback ==
  [][/\ (mBatchedInputEventPending /\ ~mBatchedInputEventPending') =>
          \/ step'.op = "nativeConsumeBatchedInputEvents"
          \/ (pc = "batchCallback" /\ step'.fault)
     /\ (~mBatchedInputEventPending /\ mBatchedInputEventPending') =>
          (step'.nBatch = 1 /\ pc' = "batchCallback")
     /\ (pc # "batchCallback" /\ pc' = "batchCallback") =>
          (~mBatchedInputEventPending /\ mBatchedInputEventPending')
     /\ (pc = "batchCallback" /\ ~step'.fault) => mBatchedInputEventPending'
     /\ (pc = "batchCallback" /\ step'.fault) => ~mBatchedInputEventPending']_vars

\* the callback failed and the flag is false again, with no batch consumed
C17_Witness ==
  /\ step.op = "consumeEvents" /\ step.nBatch = 1 /\ step.fault
  /\ ~consumeBatches
  /\ pc = "idle"
  /\ ~mBatchedInputEventPending

\* C18: a handleEvent call whose mask contains ALOOPER_EVENT_ERROR or
\* ALOOPER_EVENT_HANGUP, with whatever other bits, returns 0 (the Looper
\* drops the registration); it does not enter consumeEvents, the transport
\* accepts no acknowledgement in it, and mFinishQueue is left as it was.
C18_ErrorOrHangupStops ==
  [][(step'.op = "handleEvent"
        /\ step'.events \cap {ALOOPER_EVENT_ERROR, ALOOPER_EVENT_HANGUP} # {}) =>
       /\ step'.callbackResult = 0
       /\ looperFd' = {}
       /\ pc' = "idle"
       /\ accepted' = accepted
       /\ mFinishQueue' = mFinishQueue
       /\ UNCHANGED <<lastSeq, nEvents, onEventCalls, onFocusCalls>>]_vars

\* the scenario: hangup arrives together with read- and write-readiness
\* while an acknowledgement waits in the queue
C18_Witness ==
  /\ step.op = "handleEvent"
  /\ step.events = {ALOOPER_EVENT_INPUT, ALOOPER_EVENT_OUTPUT, ALOOPER_EVENT_HANGUP}
  /\ step.callbackResult = 0
  /\ mFinishQueue # <<>> /\ mFinishQueue = step.queueBefore
  /\ looperFd = {}
  /\ pc = "idle"

\* C19: an iteration of consumeEvents that finds the receiver object
\* finalized (the weak reference resolves to nothing) returns DEAD_OBJECT
\* at once, whatever consume returned: no dispatchMotionEventInfo,
\* dispatchInputEvent, onFocusEvent or onBatchedInputEventPending call is
\* made and nothing is acknowledged; when handleEvent made the call it
\* returns 0 and the Looper drops the registration.
C19_DetachedReturnsDeadObject ==
  [][(pc = "consume" /\ ~receiverObj /\ ~receiverAlive /\ step'.op = "consumeEvents") =>
       /\ step'.ret = DEAD_OBJECT
       /\ pc' = "idle"
       /\ UNCHANGED <<motionInfoCalls, mLastMotionEventType, mLastTouchMoveNum,
                      onEventCalls, onFocusCalls, outstanding,
                      mBatchedInputEventPending, accepted, mFinishQueue>>
       /\ caller = "handleEvent" => (step'.callbackResult = 0 /\ looperFd' = {})]_vars

\* the scenario: the read-readiness callback decodes an event that carries
\* a sub-signature, and the receiver object is gone
C19_Witness ==
  /\ step.op = "consumeEvents" /\ step.detached
  /\ step.status = OK
  /\ nSigs = 1 /\ motionInfoCalls = 0
  /\ step.ret = DEAD_OBJECT
  /\ step.callbackResult = 0
  /\ looperFd = {}
  /\ pc = "idle"

\* C20: in every reachable state the mask the receiver remembers in
\* mFdEvents is the mask the Looper holds for the channel descriptor; in
\* particular it is None once handleEvent has returned 0 and the Looper has
\* dropped the registration.
C20_RecordedEqualsRegistered ==
  mFdEvents = looperFd

\* C21: the transport has accepted no acknowledgement twice: no two entries
\* of accepted are for the same sequence number, no record that waits in
\* mFinishQueue has been accepted or waits there twice, and every record
\* that the last step took out of the queue has been accepted (a record
\* leaves the queue only when its send succeeded, be it in a flush that
\* sent everything or in one cut short after it).
C21_AcceptedAtMostOnce ==
  /\ \A i, j \in 1..Len(accepted) : i # j => accepted[i].seq # accepted[j].seq
  /\ \A i, j \in 1..Len(mFinishQueue) : i # j => mFinishQueue[i].seq # mFinishQueue[j].seq
  /\ \A i \in 1..Len(mFinishQueue), j \in 1..Len(accepted) :
       mFinishQueue[i].seq # accepted[j].seq
  /\ \A i \in 1..Len(step.queueBefore) :
       InQueue(step.queueBefore[i]) \/ InAccepted(step.queueBefore[i])

\* the scenario: a flush over two records is cut short after the first;
\* the first has been accepted and is gone from the queue, the second waits
C21_Witness ==
  /\ FlushStep /\ step.sendStatus \in {WOULD_BLOCK, DEAD_OBJECT}
  /\ Len(step.queueBefore) = 2 /\ step.nSent = 1
  /\ InAccepted(step.queueBefore[1]) /\ ~InQueue(step.queueBefore[1])
  /\ InQueue(step.queueBefore[2]) /\ ~InAccepted(step.queueBefore[2])

\* the flush resumed: both records accepted, each once, queue empty
C21_WitnessResumed ==
  /\ FlushStep /\ step.sendStatus = OK
  /\ Len(step.queueBefore) = 1 /\ Len(accepted) = 2
  /\ Last(accepted) = step.queueBefore[1]
  /\ accepted[1].seq < accepted[2].seq
  /\ mFinishQueue = <<>>

====
